---- MODULE Spec2Model ----
(***************************************************************************)
(* A model of the PendingWork registry (src/src/pendingwork.py): one       *)
(* UpdateQueue per source device, the admission check of enqueue, the      *)
(* freeze flag of the leader's clear, the pending counter and the cached   *)
(* min_queue_len.  In Spec calls run one at a time, made by one thread, so *)
(* that the reentrant lock never blocks; each action is one whole call.    *)
(* In SpecThreads the calls of two threads interleave statement by         *)
(* statement, under the lock where the code takes it.                      *)
(***************************************************************************)
EXTENDS Integers, Sequences, FiniteSets, TLC

\* ---------------------------------------------------------------- bounds
\* Number of records the transport hands to enqueue in one behaviour.
MaxUpdates == 3
\* Number of records the Sender may hold for delivery.
MaxSender == 1

\* ---------------------------------------------------------------- inputs
\* Values of max_qlen_ratio handed to the constructor.
Ratios == {1, 2}
\* The ids setup installs, and the id of a device setup has not seen.
MyHost == "n0"
OtherHosts == <<"n1">>
Unseen == "x"
Devices == {MyHost, OtherHosts[1], Unseen}
Leaders == {MyHost, OtherHosts[1]}
\* What setup_connection_to_node may be handed.
NodeValues == {"None", "Solver"}

\* Python's None, where the code compares an integer or a record with it.
NoneLen == -1
NoUpdate == 0

VARIABLES
    queues,               \* dict host -> UpdateQueue, in insertion order
    total_no_of_updates,  \* the pending counter
    min_queue_len,        \* cached value of _update_min_and_max, or NoneLen
    k,                    \* max_qlen_ratio
    my_host,              \* "" until setup
    leader,               \* "" until setup
    frozen,               \* the barrier flag
    node,                 \* "None" (also: never connected) or "Solver"
    sender_queues,        \* records the node's Sender holds for delivery
    updates_sent,         \* records inserted so far; names the next record
    last,                 \* the last call: what it was and how it ended
    th,                   \* per thread: the call it is in and where
    lock,                 \* the thread that holds the registry lock, or ""
    obs,                  \* the last unlocked read of the counter
    cpc,                  \* Solver: where the thread that trains is
    train_i,              \* Solver.train: i, the next minibatch
    ten_recent_loss_list, \* Solver: the window of losses, newest first
    minibatch_updates,    \* Solver: the local delta retained, or NoUpdate
    update_metadata,      \* Solver: the counter sent with it, or NoUpdate
    local_round,          \* fairness state: this device's round counter
    device_epoch,         \* fairness state: device -> last counter used
    parameters,           \* Solver: the number of deltas added to the net
    close,                \* MlThread.close
    conv                  \* what the last call of convergent() returned

\* What the calls made one at a time leave alone.
tvars == <<th, lock, obs>>

\* The state of the Solver and of the thread that runs it.
svars == <<cpc, train_i, ten_recent_loss_list, minibatch_updates,
           update_metadata, local_round, device_epoch, parameters, close,
           conv>>

vars == <<queues, total_no_of_updates, min_queue_len, k, my_host, leader,
          frozen, node, sender_queues, updates_sent, last, tvars, svars>>

\* ---------------------------------------------------------- UpdateQueue
UQEnqueue(q, update) == Append(q, update)
UQHead(q) == Head(q)
UQDequeue(q) == Tail(q)
UQClear(q) == << >>
UQLen(q) == Len(q)

\* ------------------------------------------------------- the queues dict
HasQueue(qs, host) == \E i \in DOMAIN qs : qs[i].key = host
IndexOf(qs, host) == CHOOSE i \in DOMAIN qs : qs[i].key = host
QueueOf(qs, host) == qs[IndexOf(qs, host)].queue
\* self.queues[host] = q : a new key goes last, a known key keeps its place
SetQueue(qs, host, q) ==
    IF HasQueue(qs, host)
    THEN [qs EXCEPT ![IndexOf(qs, host)].queue = q]
    ELSE Append(qs, [key |-> host, queue |-> q])

RECURSIVE SetupQueues(_, _)
SetupQueues(qs, hosts) ==
    IF hosts = << >> THEN qs
    ELSE SetupQueues(SetQueue(qs, Head(hosts), << >>), Tail(hosts))

\* _update_min_and_max: the loop runs over the keys of the dict, so len()
\* is taken of each host id.
RECURSIVE MinLoop(_, _)
MinLoop(qs, lo) ==
    IF qs = << >> THEN lo
    ELSE LET n   == Len(Head(qs).key)
             lo1 == IF lo = NoneLen THEN n ELSE lo
             lo2 == IF n < lo1 /\ lo1 # 1 THEN n ELSE lo1
         IN  MinLoop(Tail(qs), lo2)

UpdateMinAndMax(qs) == MinLoop(qs, NoneLen)

\* The result of a call as its caller sees it.
Call(op, host, status, ret, notified) ==
    [op |-> op, host |-> host, status |-> status, ret |-> ret,
     notified |-> notified]

\* No call of the registry's queue operations is the last step.
NoCall == Call("", "", "ok", NoUpdate, FALSE)

IsSetUp == my_host # ""

\* The threads of SpecThreads (transport handlers, the Coordinator).
Threads == {"t1", "t2"}
NoThread == ""
Idle == [op |-> "", pc |-> "idle", host |-> "", i |-> 0]
NoRead == [read |-> FALSE, value |-> 0, sum |-> 0]

\* ------------------------------------------------------------- the Solver
\* ml_thread.py line 176
Freq == 5
\* ml_thread.py line 53: deque(50*[0.000], 50)
WindowLen == 50
\* ml_thread.py line 209: 0.0200, as the fraction 1 / PerCent
PerCent == 50
\* len(minibatches): one step of Freq minibatches and a shorter one
Minibatches == 6
\* The losses of a local step, in units of 1e-4.
Losses == {50, 51}

\* line 53
EmptyWindow == [n \in 1 .. WindowLen |-> 0]
\* lines 44-48
NoEpochs == [h \in {MyHost} \cup {OtherHosts[n] : n \in DOMAIN OtherHosts}
               |-> 0]

\* A Solver as __init__ leaves it, its thread not started.
InitSolver ==
    /\ cpc = "new"
    /\ train_i = 0
    /\ ten_recent_loss_list = EmptyWindow
    /\ minibatch_updates = NoUpdate
    /\ update_metadata = NoUpdate
    /\ local_round = 0
    /\ device_epoch = NoEpochs
    /\ parameters = 0
    /\ close = FALSE
    /\ conv = "none"

Init ==
    /\ queues = << >>
    /\ total_no_of_updates = 0
    /\ min_queue_len = NoneLen
    /\ k \in Ratios
    /\ my_host = ""
    /\ leader = ""
    /\ frozen = FALSE
    /\ node = "None"
    /\ sender_queues = 0
    /\ updates_sent = 0
    /\ last = NoCall
    /\ th = [t \in Threads |-> Idle]
    /\ lock = NoThread
    /\ obs = NoRead
    /\ InitSolver

Setup(host, others, ldr) ==
    /\ ~IsSetUp
    /\ my_host' = host
    /\ queues' = SetupQueues(SetQueue(queues, host, << >>), others)
    /\ leader' = ldr
    /\ last' = Call("setup", host, "ok", NoUpdate, FALSE)
    /\ UNCHANGED <<total_no_of_updates, min_queue_len, k, frozen, node,
                   sender_queues, updates_sent>>
    /\ UNCHANGED <<tvars, svars>>

SetupConnectionToNode(n) ==
    /\ IsSetUp
    /\ node' = n
    /\ last' = NoCall
    /\ UNCHANGED <<queues, total_no_of_updates, min_queue_len, k, my_host,
                   leader, frozen, sender_queues, updates_sent>>
    /\ UNCHANGED <<tvars, svars>>

\* ---------------------------------------------------------------- enqueue
\* The update handed to enqueue is named by its arrival number.
NextUpdate == updates_sent + 1

\* Dropped with the barrier never applied.
Dropped_Never(host) == FALSE

\* Dropped with the barrier applied to the leader too.
Dropped_LeaderToo(host) == frozen

\* lines 59-63: frozen, and the update is not the leader's
Dropped(host) == frozen /\ host # leader

\* PushedBack with the threshold itself refused (>= for >).
PushedBack_AtThreshold(q) ==
    /\ min_queue_len # NoneLen
    /\ UQLen(q) >= k * min_queue_len

\* lines 75-76: the admission test on the queue q of a known host
PushedBack(q) ==
    /\ min_queue_len # NoneLen
    /\ UQLen(q) > k * min_queue_len

\* FirstContact with the counter left as it was.
FirstContact_NotCounted(host) ==
    LET qs == SetQueue(queues, host, UQEnqueue(<< >>, NextUpdate)) IN
    /\ NextUpdate <= MaxUpdates
    /\ queues' = qs
    /\ min_queue_len' = UpdateMinAndMax(qs)
    /\ updates_sent' = NextUpdate
    /\ last' = Call("enqueue", host, "ok", NoUpdate, FALSE)
    /\ UNCHANGED total_no_of_updates

\* lines 65-73: a new queue is never pushed back
FirstContact(host) ==
    LET qs == SetQueue(queues, host, UQEnqueue(<< >>, NextUpdate)) IN
    /\ NextUpdate <= MaxUpdates
    /\ queues' = qs
    /\ total_no_of_updates' = total_no_of_updates + 1
    /\ min_queue_len' = UpdateMinAndMax(qs)
    /\ updates_sent' = NextUpdate
    /\ last' = Call("enqueue", host, "ok", NoUpdate, FALSE)

\* PushBack with the test made after the record is queued.
PushBack_AfterInsert(host) ==
    /\ queues' = SetQueue(queues, host,
                          UQEnqueue(QueueOf(queues, host), NextUpdate))
    /\ last' = Call("enqueue", host, "DevicePushbackError", NoUpdate, FALSE)
    /\ UNCHANGED <<total_no_of_updates, min_queue_len, updates_sent>>

\* lines 77-78
PushBack(host) ==
    /\ last' = Call("enqueue", host, "DevicePushbackError", NoUpdate, FALSE)
    /\ UNCHANGED <<queues, total_no_of_updates, min_queue_len, updates_sent>>

\* lines 79-88
InsertAndNotify(host) ==
    LET qs == SetQueue(queues, host,
                       UQEnqueue(QueueOf(queues, host), NextUpdate)) IN
    /\ NextUpdate <= MaxUpdates
    /\ queues' = qs
    /\ total_no_of_updates' = total_no_of_updates + 1
    /\ updates_sent' = NextUpdate
    /\ IF node = "Solver"
       THEN /\ min_queue_len' = UpdateMinAndMax(qs)
            /\ last' = Call("enqueue", host, "ok", NoUpdate, TRUE)
       ELSE \* line 83 raises (self.node has no condition) with the record
            \* queued and counted
            /\ last' = Call("enqueue", host, "AttributeError", NoUpdate, FALSE)
            /\ UNCHANGED min_queue_len

Enqueue(host) ==
    /\ IsSetUp
    /\ IF Dropped(host)
       THEN /\ last' = Call("enqueue", host, "dropped", NoUpdate, FALSE)
            /\ UNCHANGED <<queues, total_no_of_updates, min_queue_len, frozen,
                           updates_sent>>
       ELSE /\ frozen' = FALSE
            /\ IF ~HasQueue(queues, host) THEN FirstContact(host)
               ELSE IF PushedBack(QueueOf(queues, host)) THEN PushBack(host)
               ELSE InsertAndNotify(host)
    /\ UNCHANGED <<k, my_host, leader, node, sender_queues>>
    /\ UNCHANGED <<tvars, svars>>

\* ---------------------------------------------------------------- dequeue
\* Pop with the counter left as it was.
Pop_NotCounted(qs, host) ==
    LET q   == QueueOf(qs, host)
        qs2 == SetQueue(qs, host, UQDequeue(q))
    IN  /\ queues' = qs2
        /\ min_queue_len' = UpdateMinAndMax(qs2)
        /\ last' = Call("dequeue", host, "ok", UQHead(q), FALSE)
        /\ UNCHANGED total_no_of_updates

\* lines 106-116, for a host whose queue in qs is not empty
Pop(qs, host) ==
    LET q   == QueueOf(qs, host)
        qs2 == SetQueue(qs, host, UQDequeue(q))
    IN  /\ queues' = qs2
        /\ total_no_of_updates' = total_no_of_updates - 1
        /\ min_queue_len' = UpdateMinAndMax(qs2)
        /\ last' = Call("dequeue", host, "ok", UQHead(q), FALSE)

\* Dequeue without the test of the counter at lines 95-97.
Dequeue_NoCounterTest(host) ==
    /\ IsSetUp
    /\ LET known == HasQueue(queues, host)
           qs1   == IF known THEN queues ELSE SetQueue(queues, host, << >>)
           min1  == IF known THEN min_queue_len ELSE UpdateMinAndMax(qs1)
       IN  IF UQLen(QueueOf(qs1, host)) > 0
           THEN Pop(qs1, host)
           ELSE /\ queues' = qs1
                /\ min_queue_len' = min1
                /\ last' = Call("dequeue", host, "EmptyQueueError",
                                NoUpdate, FALSE)
                /\ UNCHANGED total_no_of_updates
    /\ UNCHANGED <<k, my_host, leader, frozen, node, sender_queues,
                   updates_sent>>
    /\ UNCHANGED <<tvars, svars>>

Dequeue(host) ==
    /\ IsSetUp
    /\ IF total_no_of_updates = 0
       THEN /\ last' = Call("dequeue", host, "EmptyQueueError", NoUpdate, FALSE)
            /\ UNCHANGED <<queues, total_no_of_updates, min_queue_len>>
       ELSE LET known == HasQueue(queues, host)
                \* lines 100-104: the queue is created if none exists
                qs1   == IF known THEN queues ELSE SetQueue(queues, host, << >>)
                min1  == IF known THEN min_queue_len ELSE UpdateMinAndMax(qs1)
            IN  IF UQLen(QueueOf(qs1, host)) > 0
                THEN Pop(qs1, host)
                ELSE /\ queues' = qs1
                     /\ min_queue_len' = min1
                     /\ last' = Call("dequeue", host, "EmptyQueueError",
                                     NoUpdate, FALSE)
                     /\ UNCHANGED total_no_of_updates
    /\ UNCHANGED <<k, my_host, leader, frozen, node, sender_queues,
                   updates_sent>>
    /\ UNCHANGED <<tvars, svars>>

\* ---------------------------------------------------- dequeue_every_queue
\* The loop of lines 129-131: <<total, queues>> after it has run over qs.
\* ClearLoop with the queue cleared before its length is subtracted.
RECURSIVE ClearLoop_ClearFirst(_, _, _)
ClearLoop_ClearFirst(total, qs, i) ==
    IF i > Len(qs) THEN <<total, qs>>
    ELSE LET cleared == [qs EXCEPT ![i].queue = UQClear(qs[i].queue)] IN
         ClearLoop_ClearFirst(total - UQLen(cleared[i].queue), cleared, i + 1)

\* ClearLoop that stops before the last queue.
RECURSIVE ClearLoop_SkipLast(_, _, _)
ClearLoop_SkipLast(total, qs, i) ==
    IF i >= Len(qs) THEN <<total, qs>>
    ELSE ClearLoop_SkipLast(total - UQLen(qs[i].queue),
                            [qs EXCEPT ![i].queue = UQClear(qs[i].queue)],
                            i + 1)

RECURSIVE ClearLoop(_, _, _)
ClearLoop(total, qs, i) ==
    IF i > Len(qs) THEN <<total, qs>>
    ELSE ClearLoop(total - UQLen(qs[i].queue),
                   [qs EXCEPT ![i].queue = UQClear(qs[i].queue)], i + 1)

DequeueEveryQueue ==
    /\ IsSetUp
    /\ LET r == ClearLoop(total_no_of_updates, queues, 1) IN
       /\ total_no_of_updates' = r[1]
       /\ queues' = r[2]
    /\ last' = Call("dequeue_every_queue", "", "ok", NoUpdate, FALSE)
    /\ UNCHANGED <<min_queue_len, k, my_host, leader, frozen, node,
                   sender_queues, updates_sent>>
    /\ UNCHANGED <<tvars, svars>>

\* -------------------------------------------------------------- clear_all
\* clear_all, its result recorded as the call op(host).
ClearAllAs(op, host) ==
    /\ IsSetUp
    /\ frozen' = TRUE
    /\ IF node = "Solver"
       THEN LET r == ClearLoop(total_no_of_updates, queues, 1) IN
            /\ sender_queues' = 0
            /\ total_no_of_updates' = r[1]
            /\ queues' = r[2]
            /\ last' = Call(op, host, "ok", NoUpdate, FALSE)
       ELSE \* line 122 raises: self.node has no sender_queues
            /\ last' = Call(op, host, "AttributeError", NoUpdate, FALSE)
            /\ UNCHANGED <<queues, total_no_of_updates, sender_queues>>
    /\ UNCHANGED <<min_queue_len, k, my_host, leader, node, updates_sent>>
    /\ UNCHANGED <<tvars, svars>>

ClearAll == ClearAllAs("clear_all", "")

\* ------------------------------------------- main.py: /clear_all_queues
\* Unauthorized with every sender let through.
Unauthorized_Never(sender) == FALSE

\* main.py line 63
Unauthorized(sender) == sender # leader

ClearAllQueues(sender) ==
    /\ IsSetUp
    /\ IF Unauthorized(sender)
       THEN /\ last' = Call("clear_all_queues", sender, "refused", NoUpdate,
                            FALSE)
            /\ UNCHANGED <<queues, total_no_of_updates, min_queue_len, k,
                           my_host, leader, frozen, node, sender_queues,
                           updates_sent, tvars, svars>>
       ELSE ClearAllAs("clear_all_queues", sender)

\* --------------------------------------------------------- dequeue_random
\* The loop of lines 148-154: the index of the queue popped, 0 when none.
\* RandomLoop with r not lowered by the length of a queue passed over.
RECURSIVE RandomLoop_KeepR(_, _, _)
RandomLoop_KeepR(qs, i, r) ==
    IF i > Len(qs) THEN 0
    ELSE IF UQLen(qs[i].queue) > r THEN i
    ELSE RandomLoop_KeepR(qs, i + 1, r)

\* RandomLoop with the length of a queue compared to r + 1.
RECURSIVE RandomLoop_OffByOne(_, _, _)
RandomLoop_OffByOne(qs, i, r) ==
    IF i > Len(qs) THEN 0
    ELSE IF UQLen(qs[i].queue) > r + 1 THEN i
    ELSE RandomLoop_OffByOne(qs, i + 1, r - UQLen(qs[i].queue))

RECURSIVE RandomLoop(_, _, _)
RandomLoop(qs, i, r) ==
    IF i > Len(qs) THEN 0
    ELSE IF UQLen(qs[i].queue) > r THEN i
    ELSE RandomLoop(qs, i + 1, r - UQLen(qs[i].queue))

Max(a, b) == IF a > b THEN a ELSE b

\* RandomRange with the counter itself among the draws.
RandomRange_UpToTotal(total) == 0 .. total

\* line 146: random.randint(0, max(self.total_no_of_updates - 1, 0))
RandomRange(total) == 0 .. Max(total - 1, 0)

DequeueRandom(r) ==
    /\ IsSetUp
    /\ IF total_no_of_updates = 0
       THEN /\ last' = Call("dequeue_random", "", "EmptyQueueError", NoUpdate,
                            FALSE)
            /\ UNCHANGED <<queues, total_no_of_updates, min_queue_len>>
       ELSE LET i == RandomLoop(queues, 1, r) IN
            IF i = 0
            THEN /\ last' = Call("dequeue_random", "", "ExtraFatal", NoUpdate,
                                 FALSE)
                 /\ UNCHANGED <<queues, total_no_of_updates, min_queue_len>>
            ELSE LET q  == queues[i].queue
                     qs == [queues EXCEPT ![i].queue = UQDequeue(q)]
                 IN  /\ queues' = qs
                     /\ total_no_of_updates' = total_no_of_updates - 1
                     /\ min_queue_len' = UpdateMinAndMax(qs)
                     /\ last' = Call("dequeue_random", queues[i].key, "ok",
                                     UQHead(q), FALSE)
    /\ UNCHANGED <<k, my_host, leader, frozen, node, sender_queues,
                   updates_sent>>
    /\ UNCHANGED <<tvars, svars>>

\* ----------------------------------------------------------------- Sender
\* The node hands a record to its Sender; the delivery worker sends one.
SenderEnqueue ==
    /\ node = "Solver"
    /\ sender_queues < MaxSender
    /\ sender_queues' = sender_queues + 1
    /\ last' = NoCall
    /\ UNCHANGED <<queues, total_no_of_updates, min_queue_len, k, my_host,
                   leader, frozen, node, updates_sent>>
    /\ UNCHANGED <<tvars, svars>>

SenderDeliver ==
    /\ sender_queues > 0
    /\ sender_queues' = sender_queues - 1
    /\ last' = NoCall
    /\ UNCHANGED <<queues, total_no_of_updates, min_queue_len, k, my_host,
                   leader, frozen, node, updates_sent>>
    /\ UNCHANGED <<tvars, svars>>

\* ======================================================================
\* Properties
\* ======================================================================
RECURSIVE SumOfLengths(_)
SumOfLengths(qs) ==
    IF qs = << >> THEN 0 ELSE Len(Head(qs).queue) + SumOfLengths(Tail(qs))
Lengths(qs) == {UQLen(qs[i].queue) : i \in DOMAIN qs}
MinLength(qs) == CHOOSE n \in Lengths(qs) : \A m \in Lengths(qs) : n <= m
\* The call that just ended was op, and it ended with status.
Ended(op, status) == last.op = op /\ last.status = status
\* The step is a call of enqueue that queued its update for host.
Inserted(host) ==
    /\ HasQueue(queues', host)
    /\ QueueOf(queues', host) =
          Append(IF HasQueue(queues, host) THEN QueueOf(queues, host)
                 ELSE << >>, NextUpdate)
    /\ \A i \in DOMAIN queues :
          queues[i].key # host => queues'[i] = queues[i]
    /\ Len(queues') = IF HasQueue(queues, host) THEN Len(queues)
                      ELSE Len(queues) + 1
    /\ total_no_of_updates' = total_no_of_updates + 1

\* C1: after every call of the registry (normal return, drop, or error) the
\* pending counter equals the sum of the lengths of all queues.
C1_TotalIsSumOfLengths ==
    IsSetUp => total_no_of_updates = SumOfLengths(queues)

\* C1 witness: an enqueue was pushed back while records are pending in more
\* than one queue.
C1_Witness ==
    /\ Ended("enqueue", "DevicePushbackError")
    /\ total_no_of_updates = 3
    /\ Cardinality({i \in DOMAIN queues : UQLen(queues[i].queue) > 0}) >= 2

\* C2: not frozen, the host's queue exists and min_queue_len is known: the
\* call of enqueue raises DevicePushbackError exactly when the length of the
\* queue exceeds k * min_queue_len, and otherwise inserts the record.
C2_AdmissionThreshold ==
    [][\A host \in Devices :
        ( /\ last'.op = "enqueue" /\ last'.host = host
          /\ ~frozen
          /\ HasQueue(queues, host)
          /\ min_queue_len # NoneLen )
        => /\ (last'.status = "DevicePushbackError")
                <=> (Len(QueueOf(queues, host)) > k * min_queue_len)
           /\ (Len(QueueOf(queues, host)) <= k * min_queue_len)
                => Inserted(host)]_vars

\* C2 witness: an enqueue was refused on a queue one longer than
\* k * min_queue_len, in a registry that is not frozen.
C2_Witness ==
    /\ Ended("enqueue", "DevicePushbackError")
    /\ ~frozen
    /\ min_queue_len # NoneLen
    /\ Len(QueueOf(queues, last.host)) = k * min_queue_len + 1

\* C3: after a call that changed a queue, min_queue_len is the minimum of
\* the lengths of the queues.
C3_MinQueueLenIsMinimum ==
    ( /\ last.op \in {"enqueue", "dequeue", "dequeue_random",
                      "dequeue_every_queue", "clear_all"}
      /\ last.status = "ok" )
    => min_queue_len = MinLength(queues)

\* C4: a clear_all that returns leaves the counter at 0 and the registry
\* frozen; a frozen registry stays frozen over every enqueue of a device
\* that is not the leader, and each is dropped; from the frozen and empty
\* registry clear_all leaves, frozen is reset only by an enqueue of the
\* leader that inserts its record, and every enqueue of the leader does so;
\* an enqueue that finds the registry not frozen is never dropped.
C4_FreezeClearSequence ==
    [][/\ (last'.op = "clear_all" /\ last'.status = "ok")
            => (total_no_of_updates' = 0 /\ frozen')
       /\ (frozen /\ last'.op = "enqueue" /\ last'.host # leader)
            => /\ last'.status = "dropped"
               /\ frozen'
               /\ queues' = queues
               /\ total_no_of_updates' = total_no_of_updates
       /\ (frozen /\ total_no_of_updates = 0 /\ ~frozen')
            => /\ last'.op = "enqueue"
               /\ last'.host = leader
               /\ Inserted(leader)
       /\ ( /\ frozen /\ total_no_of_updates = 0
            /\ last'.op = "enqueue" /\ last'.host = leader )
            => (~frozen' /\ Inserted(leader))
       /\ (~frozen /\ last'.op = "enqueue")
            => (last'.status # "dropped" /\ ~frozen')]_vars

\* C4 witness: clear_all has emptied and frozen the registry, and an
\* enqueue of a configured device that is not the leader has been dropped.
C4_Witness ==
    /\ Ended("enqueue", "dropped")
    /\ frozen
    /\ last.host # leader
    /\ HasQueue(queues, last.host)
    /\ total_no_of_updates = 0
    /\ updates_sent >= 2

\* C5: frozen and the host is not the leader: enqueue returns without an
\* error and the queues, their content, the counter, min_queue_len and
\* frozen are as before the call.
C5_FrozenDropChangesNothing ==
    [][\A host \in Devices :
        (frozen /\ host # leader /\ last'.op = "enqueue" /\ last'.host = host)
        => /\ last'.status = "dropped"
           /\ UNCHANGED <<queues, total_no_of_updates, min_queue_len, frozen>>
      ]_vars

\* C5 witness: a drop in a frozen registry; the host dropped has no queue.
C5_Witness ==
    /\ Ended("enqueue", "dropped")
    /\ frozen
    /\ last.host # leader
    /\ ~HasQueue(queues, last.host)

\* C6: setup leaves the counter at 0; an enqueue that queues its record
\* raises it by 1; dequeue_random with n > 0 records pending succeeds and
\* lowers it by 1, and with none pending raises EmptyQueueError and leaves
\* the registry as it was: n pending records are drained by exactly n calls.
C6_CountingThroughDequeueRandom ==
    [][/\ (last'.op = "setup") => (total_no_of_updates' = 0)
       /\ (last'.op = "enqueue" /\ queues' # queues)
            => (total_no_of_updates' = total_no_of_updates + 1)
       /\ (last'.op = "dequeue_random")
            => IF total_no_of_updates > 0
               THEN /\ last'.status = "ok"
                    /\ total_no_of_updates' = total_no_of_updates - 1
                    /\ SumOfLengths(queues') = SumOfLengths(queues) - 1
               ELSE /\ last'.status = "EmptyQueueError"
                    /\ UNCHANGED <<queues, total_no_of_updates,
                                   min_queue_len, frozen>>]_vars

\* C6 witness: three records were enqueued and drained, and one more
\* dequeue_random has raised EmptyQueueError.
C6_Witness ==
    /\ Ended("dequeue_random", "EmptyQueueError")
    /\ updates_sent = 3
    /\ total_no_of_updates = 0
    /\ ~frozen

\* C7: not frozen and the host has no queue: enqueue creates the queue and
\* inserts the record (the new queue holds that record alone, the counter
\* grows by 1), and raises no error, for every k, min_queue_len and length
\* of the other queues.
C7_FirstContactIsAdmitted ==
    [][\A host \in Devices :
        ( /\ last'.op = "enqueue" /\ last'.host = host
          /\ ~frozen
          /\ ~HasQueue(queues, host) )
        => /\ last'.status = "ok"
           /\ Inserted(host)
           /\ QueueOf(queues', host) = <<NextUpdate>>]_vars

\* C7 witness: a first contact was admitted while another queue held two
\* records and min_queue_len was known.
C7_Witness ==
    /\ Ended("enqueue", "ok")
    /\ ~last.notified
    /\ Len(QueueOf(queues, last.host)) = 1
    /\ \E i \in DOMAIN queues : Len(queues[i].queue) = 2
    /\ min_queue_len # NoneLen

\* C8: an enqueue that returns after inserting its record has notified the
\* node's condition.
C8_InsertNotifies ==
    Ended("enqueue", "ok") => last.notified

\* C9: an enqueue that raises DevicePushbackError has inserted nothing: the
\* queues, their content and the counter are as before the call.
C9_PushbackInsertsNothing ==
    [][(last'.op = "enqueue" /\ last'.status = "DevicePushbackError")
        => UNCHANGED <<queues, total_no_of_updates>>]_vars

\* C9 witness: the leader's enqueue was pushed back on its queue of two.
C9_Witness ==
    /\ Ended("enqueue", "DevicePushbackError")
    /\ last.host = leader
    /\ Len(QueueOf(queues, leader)) = 2
    /\ total_no_of_updates = 2

\* The records of q, as a set.
Range(q) == {q[i] : i \in DOMAIN q}

\* C10: dequeue(host) on a non-empty queue of host returns the record
\* enqueued earliest for host among those queued, removes that record and
\* no other, lowers the counter by 1 and leaves the other queues as they
\* were.
C10_DequeueIsFifoPerDevice ==
    [][\A host \in Devices :
        ( /\ last'.op = "dequeue" /\ last'.host = host
          /\ HasQueue(queues, host)
          /\ Len(QueueOf(queues, host)) > 0 )
        => /\ last'.status = "ok"
           /\ last'.ret \in Range(QueueOf(queues, host))
           /\ \A u \in Range(QueueOf(queues, host)) : last'.ret <= u
           /\ Range(QueueOf(queues', host)) =
                 Range(QueueOf(queues, host)) \ {last'.ret}
           /\ Len(QueueOf(queues', host)) = Len(QueueOf(queues, host)) - 1
           /\ total_no_of_updates' = total_no_of_updates - 1
           /\ Len(queues') = Len(queues)
           /\ \A i \in DOMAIN queues :
                 queues[i].key # host => queues'[i] = queues[i]]_vars

\* C10 witness: the first of two records of a host was returned while a
\* later one stays queued and another queue holds a record.
C10_Witness ==
    /\ Ended("dequeue", "ok")
    /\ last.ret = 1
    /\ QueueOf(queues, last.host) = <<3>>
    /\ total_no_of_updates = 2

\* The keys of the dict, in its order.
KeysOf(qs) == [i \in DOMAIN qs |-> qs[i].key]
\* The step is a call dequeue(host) that raised EmptyQueueError.
DequeueRaisedEmpty(host) ==
    /\ last'.op = "dequeue" /\ last'.host = host
    /\ last'.status = "EmptyQueueError"
\* No queue of the registry lost or gained a record in the step.
NoRecordMoved ==
    /\ \A i \in DOMAIN queues : queues'[i] = queues[i]
    /\ \A i \in DOMAIN queues' \ DOMAIN queues : queues'[i].queue = << >>
    /\ total_no_of_updates' = total_no_of_updates
\* dequeue(host) has nothing to return.
NothingFor(host) ==
    \/ total_no_of_updates = 0
    \/ ~HasQueue(queues, host)
    \/ QueueOf(queues, host) = << >>

C12_ClearEmptiesEveryQueue ==
    [][( /\ last'.op \in {"dequeue_every_queue", "clear_all",
                          "clear_all_queues"}
         /\ last'.status = "ok" )
        => /\ \A i \in DOMAIN queues' : queues'[i].queue = << >>
           /\ total_no_of_updates' = 0
           /\ KeysOf(queues') = KeysOf(queues)]_vars

\* C12 witness: clear_all has returned; three records had been inserted and
\* the dict holds the three hosts.
C12_Witness ==
    /\ Ended("clear_all", "ok")
    /\ updates_sent = 3
    /\ Len(queues) = 3
    /\ total_no_of_updates = 0

\* C13: a clear request of a sender that is not the leader changes nothing:
\* frozen, the queues, the counter and the Sender's queue are as before;
\* clear_all runs only for the leader.
C13_NonLeaderClearChangesNothing ==
    [][\A sender \in Devices :
        ( /\ last'.op = "clear_all_queues" /\ last'.host = sender
          /\ sender # leader )
        => /\ last'.status = "refused"
           /\ UNCHANGED <<frozen, queues, total_no_of_updates,
                          min_queue_len, sender_queues>>]_vars

\* C13 witness: a clear request was refused while records were pending in
\* the registry and in the Sender.
C13_Witness ==
    /\ Ended("clear_all_queues", "refused")
    /\ total_no_of_updates >= 2
    /\ sender_queues > 0
    /\ ~frozen

Next ==
    \/ \E ldr \in Leaders : Setup(MyHost, OtherHosts, ldr)
    \/ \E n \in NodeValues : SetupConnectionToNode(n)
    \/ \E host \in Devices : Enqueue(host)
    \/ \E host \in Devices : Dequeue(host)
    \/ DequeueEveryQueue
    \/ ClearAll
    \/ \E sender \in Devices : ClearAllQueues(sender)
    \/ \E r \in RandomRange(total_no_of_updates) : DequeueRandom(r)
    \/ SenderEnqueue
    \/ SenderDeliver

Spec == Init /\ [][Next]_vars

\* ======================================================================
\* The same calls made by concurrent threads
\* ======================================================================
\* Each action is one thread running from one access of shared state to
\* the next one that another thread can tell apart: the frozen flag and
\* the counter are read and written without the lock (lines 52, 59-61,
\* 209), queues only under it.  Taking the lock is folded into the first
\* step made under it and releasing it into the last.

At(t, pc) == th[t].pc = pc
Goto(t, op, pc, host, i) ==
    th' = [th EXCEPT ![t] = [op |-> op, pc |-> pc, host |-> host, i |-> i]]
Return(t) == th' = [th EXCEPT ![t] = Idle]
\* self.write() returns: the RLock is free (no call nests another's hold)
CanLock(t) == lock = NoThread

\* The threads start on a registry that has been set up (main.py 99-100).
InitThreads ==
    /\ queues = SetupQueues(SetQueue(<< >>, MyHost, << >>), OtherHosts)
    /\ total_no_of_updates = 0
    /\ min_queue_len = NoneLen
    /\ k \in Ratios
    /\ my_host = MyHost
    /\ leader \in Leaders
    /\ frozen = FALSE
    /\ node \in NodeValues
    /\ sender_queues = 0
    /\ updates_sent = 0
    /\ last = NoCall
    /\ th = [t \in Threads |-> Idle]
    /\ lock = NoThread
    /\ obs = NoRead
    /\ InitSolver

\* enqueue, lines 59-63: the test of the barrier, made without the lock
TEnqueueTest(t, host) ==
    /\ At(t, "idle")
    /\ IF frozen
       THEN IF host = leader
            THEN Goto(t, "enqueue", "unfreeze", host, 0)
            ELSE Return(t)
       ELSE Goto(t, "enqueue", "insert", host, 0)
    /\ obs' = NoRead
    /\ UNCHANGED <<queues, total_no_of_updates, min_queue_len, k, my_host,
                   leader, frozen, node, sender_queues, updates_sent, last,
                   lock>>
    /\ UNCHANGED svars

\* enqueue, line 61
TEnqueueUnfreeze(t) ==
    /\ At(t, "unfreeze")
    /\ frozen' = FALSE
    /\ Goto(t, "enqueue", "insert", th[t].host, 0)
    /\ obs' = NoRead
    /\ UNCHANGED <<queues, total_no_of_updates, min_queue_len, k, my_host,
                   leader, node, sender_queues, updates_sent, last, lock>>
    /\ UNCHANGED svars

\* enqueue, lines 64-69 and 74-79: under the lock, up to the record queued
TEnqueueInsert(t) ==
    LET host == th[t].host IN
    /\ At(t, "insert")
    /\ CanLock(t)
    /\ IF ~HasQueue(queues, host)
       THEN /\ NextUpdate <= MaxUpdates
            /\ queues' = SetQueue(queues, host, UQEnqueue(<< >>, NextUpdate))
            /\ updates_sent' = NextUpdate
            /\ lock' = t
            /\ Goto(t, "enqueue", "count_new", host, 0)
       ELSE IF PushedBack(QueueOf(queues, host))
       THEN \* lines 77-78
            /\ Return(t)
            /\ UNCHANGED <<queues, updates_sent, lock>>
       ELSE /\ NextUpdate <= MaxUpdates
            /\ queues' = SetQueue(queues, host,
                                  UQEnqueue(QueueOf(queues, host), NextUpdate))
            /\ updates_sent' = NextUpdate
            /\ lock' = t
            /\ Goto(t, "enqueue", "count", host, 0)
    /\ obs' = NoRead
    /\ UNCHANGED <<total_no_of_updates, min_queue_len, k, my_host, leader,
                   frozen, node, sender_queues, last>>
    /\ UNCHANGED svars

\* enqueue, lines 70-73 and 80-88
TEnqueueCount(t) ==
    /\ At(t, "count_new") \/ At(t, "count")
    /\ total_no_of_updates' = total_no_of_updates + 1
    /\ IF At(t, "count") /\ node # "Solver"
       THEN \* line 83 raises and the thread ends holding the lock
            /\ Goto(t, "enqueue", "AttributeError", "", 0)
            /\ UNCHANGED <<min_queue_len, lock>>
       ELSE /\ min_queue_len' = UpdateMinAndMax(queues)
            /\ lock' = NoThread
            /\ Return(t)
    /\ obs' = NoRead
    /\ UNCHANGED <<queues, k, my_host, leader, frozen, node, sender_queues,
                   updates_sent, last>>
    /\ UNCHANGED svars

\* dequeue, lines 94-107 and 109-111
TDequeuePop(t, host) ==
    /\ At(t, "idle")
    /\ CanLock(t)
    /\ IF total_no_of_updates = 0
       THEN /\ Return(t)
            /\ UNCHANGED <<queues, min_queue_len, lock>>
       ELSE LET known == HasQueue(queues, host)
                qs1   == IF known THEN queues ELSE SetQueue(queues, host, << >>)
                min1  == IF known THEN min_queue_len ELSE UpdateMinAndMax(qs1)
            IN  /\ min_queue_len' = min1
                /\ IF UQLen(QueueOf(qs1, host)) > 0
                   THEN /\ queues' = SetQueue(qs1, host,
                                              UQDequeue(QueueOf(qs1, host)))
                        /\ lock' = t
                        /\ Goto(t, "dequeue", "count_down", host, 0)
                   ELSE /\ queues' = qs1
                        /\ Return(t)
                        /\ UNCHANGED lock
    /\ obs' = NoRead
    /\ UNCHANGED <<total_no_of_updates, k, my_host, leader, frozen, node,
                   sender_queues, updates_sent, last>>
    /\ UNCHANGED svars

\* dequeue_random, lines 141-158
TDequeueRandomPick(t, r) ==
    /\ At(t, "idle")
    /\ CanLock(t)
    /\ IF total_no_of_updates = 0
       THEN /\ Return(t)
            /\ UNCHANGED <<queues, lock>>
       ELSE LET i == RandomLoop(queues, 1, r) IN
            IF i = 0
            THEN /\ Goto(t, "dequeue_random", "ExtraFatal", "", 0)
                 /\ UNCHANGED <<queues, lock>>
            ELSE /\ queues' = [queues EXCEPT
                                 ![i].queue = UQDequeue(queues[i].queue)]
                 /\ lock' = t
                 /\ Goto(t, "dequeue_random", "count_down", queues[i].key, 0)
    /\ obs' = NoRead
    /\ UNCHANGED <<total_no_of_updates, min_queue_len, k, my_host, leader,
                   frozen, node, sender_queues, updates_sent, last>>
    /\ UNCHANGED svars

\* dequeue lines 113-116, dequeue_random lines 159-162
TCountDown(t) ==
    /\ At(t, "count_down")
    /\ total_no_of_updates' = total_no_of_updates - 1
    /\ min_queue_len' = UpdateMinAndMax(queues)
    /\ lock' = NoThread
    /\ Return(t)
    /\ obs' = NoRead
    /\ UNCHANGED <<queues, k, my_host, leader, frozen, node, sender_queues,
                   updates_sent, last>>
    /\ UNCHANGED svars

\* clear_all, line 120: freeze_node, made without the lock
TClearAllFreeze(t) ==
    /\ At(t, "idle")
    /\ frozen' = TRUE
    /\ Goto(t, "clear_all", "sender", "", 0)
    /\ obs' = NoRead
    /\ UNCHANGED <<queues, total_no_of_updates, min_queue_len, k, my_host,
                   leader, node, sender_queues, updates_sent, last, lock>>
    /\ UNCHANGED svars

\* clear_all, line 122
TClearAllSender(t) ==
    /\ At(t, "sender")
    /\ IF node = "Solver"
       THEN /\ sender_queues' = 0
            /\ Goto(t, "clear_all", "subtract", "", 1)
       ELSE /\ Goto(t, "clear_all", "AttributeError", "", 0)
            /\ UNCHANGED sender_queues
    /\ obs' = NoRead
    /\ UNCHANGED <<queues, total_no_of_updates, min_queue_len, k, my_host,
                   leader, frozen, node, updates_sent, last, lock>>
    /\ UNCHANGED svars

\* dequeue_every_queue called on its own: up to its loop
TDequeueEveryQueue(t) ==
    /\ At(t, "idle")
    /\ Goto(t, "dequeue_every_queue", "subtract", "", 1)
    /\ obs' = NoRead
    /\ UNCHANGED <<queues, total_no_of_updates, min_queue_len, k, my_host,
                   leader, frozen, node, sender_queues, updates_sent, last,
                   lock>>
    /\ UNCHANGED svars

\* dequeue_every_queue, line 130 (and line 128 before the first queue)
TSubtract(t) ==
    LET i == th[t].i IN
    /\ At(t, "subtract")
    /\ IF i = 1 THEN CanLock(t) ELSE lock = t
    /\ lock' = t
    /\ total_no_of_updates' = total_no_of_updates - UQLen(queues[i].queue)
    /\ Goto(t, th[t].op, "clear", "", i)
    /\ obs' = NoRead
    /\ UNCHANGED <<queues, min_queue_len, k, my_host, leader, frozen, node,
                   sender_queues, updates_sent, last>>
    /\ UNCHANGED svars

\* dequeue_every_queue, line 131 (and line 132 after the last queue)
TClear(t) ==
    LET i == th[t].i IN
    /\ At(t, "clear")
    /\ queues' = [queues EXCEPT ![i].queue = UQClear(queues[i].queue)]
    /\ IF i = Len(queues)
       THEN /\ lock' = NoThread
            /\ Return(t)
       ELSE /\ Goto(t, th[t].op, "subtract", "", i + 1)
            /\ UNCHANGED lock
    /\ obs' = NoRead
    /\ UNCHANGED <<total_no_of_updates, min_queue_len, k, my_host, leader,
                   frozen, node, sender_queues, updates_sent, last>>
    /\ UNCHANGED svars

\* get_total_no_of_updates, line 209 (and ml_thread.py line 190): the
\* counter is read without the lock; obs keeps what the read returned next
\* to what the queues held at that instant.
TReadTotal ==
    /\ obs' = [read |-> TRUE, value |-> total_no_of_updates,
               sum |-> SumOfLengths(queues)]
    /\ UNCHANGED <<queues, total_no_of_updates, min_queue_len, k, my_host,
                   leader, frozen, node, sender_queues, updates_sent, last,
                   th, lock>>
    /\ UNCHANGED svars

NextThreads ==
    \/ \E t \in Threads, host \in Devices : TEnqueueTest(t, host)
    \/ \E t \in Threads : TEnqueueUnfreeze(t)
    \/ \E t \in Threads : TEnqueueInsert(t)
    \/ \E t \in Threads : TEnqueueCount(t)
    \/ \E t \in Threads, host \in Devices : TDequeuePop(t, host)
    \/ \E t \in Threads, r \in RandomRange(total_no_of_updates) :
           TDequeueRandomPick(t, r)
    \/ \E t \in Threads : TCountDown(t)
    \/ \E t \in Threads : TClearAllFreeze(t)
    \/ \E t \in Threads : TClearAllSender(t)
    \/ \E t \in Threads : TDequeueEveryQueue(t)
    \/ \E t \in Threads : TSubtract(t)
    \/ \E t \in Threads : TClear(t)
    \/ TReadTotal

SpecThreads == InitThreads /\ [][NextThreads]_vars

\* ======================================================================
\* Properties of the concurrent calls
\* ======================================================================
\* C14: whenever dequeue_random is called, alone or interleaved with the
\* calls of other threads, its loop finds a record if the counter is
\* positive: no call ends in ExtraFatal.
C14_NoExtraFatal == \A t \in Threads : ~At(t, "ExtraFatal")

\* a dequeue_random has taken a record while the other thread is inside
\* an enqueue that has passed the test of the barrier
C14_Witness ==
    \E t, u \in Threads :
        /\ th[t].op = "dequeue_random" /\ At(t, "count_down")
        /\ th[u].op = "enqueue" /\ At(u, "insert")
        /\ total_no_of_updates >= 2

\* C15: every read of the pending counter returns the sum of the lengths
\* the queues have at the instant of the read.
C15_ReadIsSumOfLengths == obs.read => obs.value = obs.sum

\* A step that queues a record of a device other than the leader.
NonLeaderRecordInserted ==
    \E i \in DOMAIN queues' :
        /\ queues'[i].key # leader
        /\ UQLen(queues'[i].queue) >
               (IF i \in DOMAIN queues THEN UQLen(queues[i].queue) ELSE 0)

\* The barrier is up and every clear_all that raised it has drained.
Fenced == frozen /\ \A t \in Threads : th[t].op # "clear_all"

\* C16: once clear_all has finished draining, no record of a device other
\* than the leader is queued until an enqueue of the leader has lowered
\* the barrier: a frozen registry never gains a non-leader record.
C16_EpochFence == [][Fenced => ~NonLeaderRecordInserted]_vars

\* The step in which the drain of a clear_all ends and the lock is released.
ClearAllCompletes ==
    \E t \in Threads :
        /\ th[t].op = "clear_all" /\ At(t, "clear")
        /\ th'[t] = Idle

\* C20: at the instant the drain of clear_all completes and releases the
\* lock, the registry is frozen and its counter is 0.
C20_DrainedAndFrozen ==
    [][ClearAllCompletes => frozen' /\ total_no_of_updates' = 0]_vars

\* ======================================================================
\* The Solver: training, aggregation, convergence
\* ======================================================================
Abs(x) == IF x < 0 THEN -x ELSE x
Min(a, b) == IF a < b THEN a ELSE b

\* deque.appendleft on a deque of maxlen 50: the oldest loss drops out
AppendLeft(w, x) == [n \in 1 .. WindowLen |-> IF n = 1 THEN x ELSE w[n - 1]]

\* lines 68-84: n minibatches of one local step, each of loss x
RECURSIVE AppendLeftN(_, _, _)
AppendLeftN(w, x, n) ==
    IF n = 0 THEN w ELSE AppendLeftN(AppendLeft(w, x), x, n - 1)

\* Convergent with the change taken relative to the newest loss.
Convergent_RelativeToNewest(w) ==
    IF w[1] # 0 /\ w[WindowLen] # 0
    THEN PerCent * Abs(w[1] - w[WindowLen]) < Abs(w[1])
    ELSE FALSE

\* lines 204-209: abs((newest - oldest) / oldest) < 0.02, in exact
\* arithmetic
Convergent(w) ==
    IF w[1] # 0 /\ w[WindowLen] # 0
    THEN PerCent * Abs(w[1] - w[WindowLen]) < Abs(w[WindowLen])
    ELSE FALSE

\* lines 123-138: what empty_model_and_metadata_from hands over for the
\* hosts in turn, one delta and one metadata entry per queued record, the
\* metadata naming the device that sent it
RECURSIVE Collect(_, _)
Collect(qs, hosts) ==
    IF hosts = << >> THEN << >>
    ELSE LET h == Head(hosts)
             q == IF HasQueue(qs, h) THEN QueueOf(qs, h) ELSE << >>
         IN  [n \in DOMAIN q |-> [host |-> h, update |-> q[n]]]
                 \o Collect(qs, Tail(hosts))

\* ... and the queues it leaves
RECURSIVE Drain(_, _)
Drain(qs, hosts) ==
    IF hosts = << >> THEN qs
    ELSE LET h == Head(hosts) IN
         Drain(IF HasQueue(qs, h)
               THEN SetQueue(qs, h, UQClear(QueueOf(qs, h))) ELSE qs,
               Tail(hosts))

\* The lists of one round of aggregate_received_updates, from the state
\* it starts in.
Got == Collect(queues, OtherHosts)
\* lines 141-144
OwnIncluded == minibatch_updates # NoUpdate
WeightCount == Len(Got) + (IF OwnIncluded THEN 1 ELSE 0)
MetadataCount == Len(Got) + (IF OwnIncluded THEN 1 ELSE 0)
\* line 145
HostIdSet ==
    {Got[n].host : n \in DOMAIN Got} \cup (IF OwnIncluded THEN {MyHost} ELSE {})
\* lines 148-149: one flattened entry, and one alpha, per device named
AlphaCount == Cardinality(HostIdSet)
\* the counter the round uses for device h
CounterUsed(h) ==
    IF h = MyHost THEN update_metadata
    ELSE LET n == CHOOSE n \in DOMAIN Got :
                     /\ Got[n].host = h
                     /\ \A m \in DOMAIN Got : Got[m].host = h => m <= n
         IN  Got[n].update

\* Retained with the contribution kept after the round.
Retained_Kept(own) == own

\* lines 146-147: what the round leaves of the node's own contribution
Retained(own) == NoUpdate

\* SanityCheckFails with the check left out.
SanityCheckFails_Never(alphas, weights, metadata) == FALSE

\* line 152
SanityCheckFails(alphas, weights, metadata) ==
    alphas # weights \/ weights # metadata

\* A Solver whose train() has been called, on a registry that is set up
\* and connected to it (main.py lines 99-108).
InitTrain ==
    /\ queues = SetupQueues(SetQueue(<< >>, MyHost, << >>), OtherHosts)
    /\ total_no_of_updates = 0
    /\ min_queue_len = NoneLen
    /\ k \in Ratios
    /\ my_host = MyHost
    /\ leader \in Leaders
    /\ frozen = FALSE
    /\ node = "Solver"
    /\ sender_queues = 0
    /\ updates_sent = 0
    /\ last = NoCall
    /\ th = [t \in Threads |-> Idle]
    /\ lock = NoThread
    /\ obs = NoRead
    /\ cpc = "loop"
    /\ train_i = 0
    /\ ten_recent_loss_list = EmptyWindow
    /\ minibatch_updates = NoUpdate
    /\ update_metadata = NoUpdate
    /\ local_round = 0
    /\ device_epoch = NoEpochs
    /\ parameters = 0
    /\ close = FALSE
    /\ conv = "none"

\* train, line 180 (and lines 194-200 when the loop ends)
TrainLoopTest ==
    /\ cpc = "loop"
    /\ cpc' = IF train_i < Minibatches /\ ~Convergent(ten_recent_loss_list)
              THEN "backprop" ELSE "after_death"
    /\ last' = NoCall
    /\ UNCHANGED <<queues, total_no_of_updates, min_queue_len, k, my_host,
                   leader, frozen, node, sender_queues, updates_sent, tvars,
                   train_i, ten_recent_loss_list, minibatch_updates,
                   update_metadata, local_round, device_epoch, parameters,
                   close, conv>>

\* train, line 182: minibatch_backprop_and_update_weights (lines 62-110);
\* the minibatches of one step all have the loss given
Backprop(loss) ==
    LET j == Min(train_i + Freq, Minibatches) IN
    /\ cpc = "backprop"
    /\ sender_queues < MaxSender
    /\ ten_recent_loss_list' =
           AppendLeftN(ten_recent_loss_list, loss, j - train_i)
    \* lines 90-97: the delta is kept and the net put back as it was
    /\ minibatch_updates' = j
    \* line 99: update_after_backprop(self.ip_addr, freq)
    /\ local_round' = local_round + Freq
    /\ update_metadata' = local_round + Freq
    \* lines 103-105
    /\ sender_queues' = sender_queues + 1
    /\ train_i' = j
    /\ cpc' = "agg_test"
    /\ last' = NoCall
    /\ UNCHANGED <<queues, total_no_of_updates, min_queue_len, k, my_host,
                   leader, frozen, node, updates_sent, tvars, device_epoch,
                   parameters, close, conv>>

\* train, line 190
AggregateTest ==
    /\ cpc = "agg_test"
    /\ cpc' = IF total_no_of_updates > 0 THEN "aggregate" ELSE "loop"
    /\ last' = NoCall
    /\ UNCHANGED <<queues, total_no_of_updates, min_queue_len, k, my_host,
                   leader, frozen, node, sender_queues, updates_sent, tvars,
                   train_i, ten_recent_loss_list, minibatch_updates,
                   update_metadata, local_round, device_epoch, parameters,
                   close, conv>>

\* train, line 192: aggregate_received_updates (lines 112-173)
Aggregate ==
    /\ cpc = "aggregate"
    /\ queues' = Drain(queues, OtherHosts)
    /\ total_no_of_updates' = total_no_of_updates - Len(Got)
    /\ minibatch_updates' = Retained(minibatch_updates)
    /\ update_metadata' = Retained(update_metadata)
    /\ IF SanityCheckFails(AlphaCount, WeightCount, MetadataCount)
       THEN \* line 156
            /\ cpc' = "ValueError"
            /\ UNCHANGED <<device_epoch, parameters>>
       ELSE \* lines 158-172
            /\ device_epoch' = [h \in DOMAIN device_epoch |->
                                  IF h \in HostIdSet THEN CounterUsed(h)
                                  ELSE device_epoch[h]]
            /\ parameters' = parameters + WeightCount
            /\ cpc' = "agg_test"
    /\ last' = NoCall
    /\ UNCHANGED <<min_queue_len, k, my_host, leader, frozen, node,
                   sender_queues, updates_sent, tvars, train_i,
                   ten_recent_loss_list, local_round, close, conv>>

\* main.py lines 27-30: train has returned and close is set
AfterDeath ==
    /\ cpc = "after_death"
    /\ close
    /\ cpc' = "evaluate"
    /\ last' = NoCall
    /\ UNCHANGED <<queues, total_no_of_updates, min_queue_len, k, my_host,
                   leader, frozen, node, sender_queues, updates_sent, tvars,
                   train_i, ten_recent_loss_list, minibatch_updates,
                   update_metadata, local_round, device_epoch, parameters,
                   close, conv>>

\* main.py lines 42-47: the /close request
Close ==
    /\ ~close
    /\ close' = TRUE
    /\ last' = NoCall
    /\ UNCHANGED <<queues, total_no_of_updates, min_queue_len, k, my_host,
                   leader, frozen, node, sender_queues, updates_sent, tvars,
                   cpc, train_i, ten_recent_loss_list, minibatch_updates,
                   update_metadata, local_round, device_epoch, parameters,
                   conv>>

\* main.py lines 49-55: /send_update
ReceiveUpdate(sender) == Enqueue(sender)

NextTrain ==
    \/ TrainLoopTest
    \/ \E loss \in Losses : Backprop(loss)
    \/ AggregateTest
    \/ Aggregate
    \/ AfterDeath
    \/ Close
    \/ \E sender \in Devices : ReceiveUpdate(sender)
    \/ SenderDeliver

SpecTrain == InitTrain /\ [][NextTrain]_vars

\* --------------------------------------------------- convergent() alone
\* The appends made after the window drawn at the start.
MaxAppends == 2
ConvLosses == {0, 49, 50, 51}
Window(newest, between, oldest) ==
    [n \in 1 .. WindowLen |-> IF n = 1 THEN newest
                              ELSE IF n = WindowLen THEN oldest
                              ELSE between]

\* A Solver whose window holds losses already.
InitConv ==
    /\ queues = << >>
    /\ total_no_of_updates = 0
    /\ min_queue_len = NoneLen
    /\ k \in Ratios
    /\ my_host = ""
    /\ leader = ""
    /\ frozen = FALSE
    /\ node = "None"
    /\ sender_queues = 0
    /\ updates_sent = 0
    /\ last = NoCall
    /\ th = [t \in Threads |-> Idle]
    /\ lock = NoThread
    /\ obs = NoRead
    /\ cpc = "new"
    /\ train_i = 0
    /\ \E newest \in ConvLosses, between \in {0, 50}, oldest \in ConvLosses :
           ten_recent_loss_list = Window(newest, between, oldest)
    /\ minibatch_updates = NoUpdate
    /\ update_metadata = NoUpdate
    /\ local_round = 0
    /\ device_epoch = NoEpochs
    /\ parameters = 0
    /\ close = FALSE
    /\ conv = "none"

\* line 83
AppendLoss(loss) ==
    /\ train_i < MaxAppends
    /\ train_i' = train_i + 1
    /\ ten_recent_loss_list' = AppendLeft(ten_recent_loss_list, loss)
    /\ conv' = "none"
    /\ UNCHANGED <<queues, total_no_of_updates, min_queue_len, k, my_host,
                   leader, frozen, node, sender_queues, updates_sent, last,
                   tvars, cpc, minibatch_updates, update_metadata,
                   local_round, device_epoch, parameters, close>>

\* lines 204-209
CallConvergent ==
    /\ conv = "none"
    /\ conv' = IF Convergent(ten_recent_loss_list) THEN "True" ELSE "False"
    /\ UNCHANGED <<queues, total_no_of_updates, min_queue_len, k, my_host,
                   leader, frozen, node, sender_queues, updates_sent, last,
                   tvars, cpc, train_i, ten_recent_loss_list,
                   minibatch_updates, update_metadata, local_round,
                   device_epoch, parameters, close>>

NextConv ==
    \/ \E loss \in ConvLosses : AppendLoss(loss)
    \/ CallConvergent

SpecConv == InitConv /\ [][NextConv]_vars

\* ======================================================================
\* Properties of the Solver
\* ======================================================================
\* A local step, or a round of aggregation, is entered.
StartsLocalStep == cpc # "backprop" /\ cpc' = "backprop"
StartsAggregation == cpc # "aggregate" /\ cpc' = "aggregate"

\* C17: once the close request has set the flag, the thread that trains
\* starts no further local step and no further round of aggregation.
C17_NoRoundAfterClose ==
    [][close => ~StartsLocalStep /\ ~StartsAggregation]_vars

Newest == ten_recent_loss_list[1]
Oldest == ten_recent_loss_list[WindowLen]

\* C18 as stated: convergent() returns true exactly when the newest and
\* the oldest loss are both non-zero and |oldest - newest| / |newest| is
\* below 0.02.
C18_RelativeToNewest ==
    conv # "none" =>
        (conv = "True" <=>
            /\ Newest # 0 /\ Oldest # 0
            /\ PerCent * Abs(Oldest - Newest) < Abs(Newest))

\* C18: convergent() returns true exactly when the newest and the oldest
\* loss are both non-zero and |oldest - newest| / |oldest| is below 0.02:
\* the change is taken relative to the oldest loss.
C18_RelativeToOldest ==
    conv # "none" =>
        (conv = "True" <=>
            /\ Newest # 0 /\ Oldest # 0
            /\ PerCent * Abs(Oldest - Newest) < Abs(Oldest))

\* 1/51 is below 2 per cent and 1/50 is not
C18_Witness == conv = "True" /\ Newest = 50 /\ Oldest = 51

\* C19: a round of aggregation in which the alphas, the deltas and the
\* metadata entries collected are not equally many raises ValueError and
\* changes neither the parameters nor device_epoch.
C19_MismatchAppliesNothing ==
    [][(cpc = "aggregate" /\ cpc' # "aggregate"
          /\ (AlphaCount # WeightCount \/ WeightCount # MetadataCount))
       => (cpc' = "ValueError" /\ parameters' = parameters
             /\ device_epoch' = device_epoch)]_vars

\* a round has failed on two records of one peer, after a round that
\* was applied
C19_Witness ==
    /\ cpc = "ValueError"
    /\ parameters > 0
    /\ total_no_of_updates = 0

\* The thread that trains is scheduled again and again while it is in the
\* loop of lines 190-192.
SpecTrainFair ==
    /\ InitTrain
    /\ [][NextTrain]_vars
    /\ WF_vars(AggregateTest)
    /\ WF_vars(Aggregate)

\* C21: the loop of lines 190-192 ends: a round of aggregation is followed,
\* once no further record arrives, by the thread leaving the loop, for
\* every content of the registry that enqueue can produce.
C21_AggregationLoopEnds ==
    (cpc = "aggregate") ~> (cpc # "aggregate" /\ cpc # "agg_test")

\* ======================================================================
\* More properties of the calls made one at a time
\* ======================================================================
\* The index of the queue of each pending record, the queues taken in the
\* order in which the dict is iterated.
RECURSIVE OwnersFrom(_, _)
OwnersFrom(qs, i) ==
    IF i > Len(qs) THEN << >>
    ELSE [n \in 1 .. UQLen(qs[i].queue) |-> i] \o OwnersFrom(qs, i + 1)

\* The draw r selects the queue that holds the r-th pending record.
DrawSelectsByPosition ==
    total_no_of_updates > 0 =>
        \A r \in RandomRange(total_no_of_updates) :
            RandomLoop(queues, 1, r) = OwnersFrom(queues, 1)[r + 1]

\* C22: dequeue_random with a positive counter removes exactly one record,
\* the oldest of one queue that is not empty, and leaves the other queues
\* as they were; the draw r in 0 .. total - 1 selects the queue that holds
\* the r-th pending record in the order of iteration, so that an empty
\* queue is never selected and every non-empty queue can be.
C22_DequeueRandomTakesOldestOfDrawnQueue ==
    /\ []DrawSelectsByPosition
    /\ [][(last'.op = "dequeue_random" /\ total_no_of_updates > 0)
          => /\ last'.status = "ok"
             /\ \E i \in DOMAIN queues :
                   /\ queues[i].key = last'.host
                   /\ UQLen(queues[i].queue) > 0
                   /\ last'.ret = UQHead(queues[i].queue)
                   /\ \A u \in Range(queues[i].queue) : last'.ret <= u
                   /\ queues'[i].queue = UQDequeue(queues[i].queue)
                   /\ DOMAIN queues' = DOMAIN queues
                   /\ \A n \in DOMAIN queues : n # i => queues'[n] = queues[n]
          ]_vars

\* the last queue of three was drawn while the first holds a record and
\* the second is empty, and it keeps its younger record
C22_Witness ==
    /\ Ended("dequeue_random", "ok")
    /\ Len(queues) = 3
    /\ last.host = queues[3].key
    /\ UQLen(queues[1].queue) = 1
    /\ UQLen(queues[2].queue) = 0
    /\ UQLen(queues[3].queue) = 1

\* ======================================================================
\* More properties of the Solver
\* ======================================================================
\* A local step is made.
LocalStep == cpc = "backprop" /\ cpc' # "backprop"

\* C23: the round counter sent with a local contribution advances by the
\* number of minibatches the local step has run (j - idx), also in the
\* last step, when fewer than freq minibatches remain.
C23_CounterAdvancesByStepsRun ==
    [][LocalStep =>
          /\ local_round' - local_round = train_i' - train_i
          /\ update_metadata' = local_round']_vars

\* A thread that is in no call of the registry holds its lock.
LockLeaked ==
    \E t \in Threads :
        /\ lock = t
        /\ th[t].pc \in {"idle", "AttributeError", "ExtraFatal"}

\* C24: on every way out of enqueue, dequeue, dequeue_random and
\* dequeue_every_queue the lock taken by the call has been released: no
\* thread that has left its call holds the lock.
C24_LockReleasedOnEveryExit == ~LockLeaked

\* C25: the delta of a local step is included in a round of aggregation
\* before the next local step replaces it.
C25_DeltaAggregatedBeforeNextStep ==
    [][LocalStep => minibatch_updates = NoUpdate]_vars

\* A round of aggregation is applied.
RoundApplied == cpc = "aggregate" /\ cpc' = "agg_test"

\* C26: a local delta is added to the node's own parameters at most once:
\* only a local step retains a contribution, a round adds it once if it
\* is retained, and after the round nothing is retained, so that the
\* rounds that follow before the next local step do not include it.
C26_OwnDeltaAddedAtMostOnce ==
    [][/\ (minibatch_updates' # minibatch_updates
             /\ minibatch_updates' # NoUpdate) => LocalStep
       /\ RoundApplied =>
             /\ parameters' - parameters =
                   Len(Got) + (IF OwnIncluded THEN 1 ELSE 0)
             /\ minibatch_updates' = NoUpdate
             /\ update_metadata' = NoUpdate
             /\ ~OwnIncluded']_vars

\* after one local step a round has added the node's delta with a record
\* of the peer, and a second round has added the peer's next record alone
C26_Witness ==
    /\ cpc = "agg_test"
    /\ train_i = Freq
    /\ device_epoch[MyHost] = Freq
    /\ device_epoch[OtherHosts[1]] = 2
    /\ parameters = 3
    /\ minibatch_updates = NoUpdate

\* C27: the count check of a round of aggregation passes for every
\* content of the registry that enqueue can produce: the round never ends
\* in ValueError.
C27_CountCheckPasses == cpc # "ValueError"

\* C28: with the calls made one at a time, a frozen registry has every
\* queue empty and its counter at 0.
C28_FrozenIsEmpty ==
    frozen =>
        /\ total_no_of_updates = 0
        /\ \A n \in DOMAIN queues : UQLen(queues[n].queue) = 0
====
